---------------------------- MODULE Spec2Model ----------------------------
(***************************************************************************)
(* A model of the rust_web_server dispatch engine: the fixed-size worker   *)
(* pool (src/concurrent), the accept loop and per-connection job of the    *)
(* server (src/http/server.rs) and the request router.                     *)
(*                                                                         *)
(* Threads: the owner of the pool (the thread that runs Server::start and  *)
(* later drops the pool) and one thread per Worker.  Every statement of    *)
(* the worker loop that touches shared state is one action.                *)
(***************************************************************************)
EXTENDS Integers, Sequences, FiniteSets, TLC

(* ------------------------------ bounds -------------------------------- *)
\* size passed to ThreadPool::new
PoolSize == 2
\* number of jobs (accepted connections) the owner submits at most
MaxJobs == 3
\* number of connections the server accepts at most
MaxConns == 2
\* number of (matcher, handler) pairs registered at most
MaxRoutes == 2

Workers == 1..PoolSize
Jobs    == 1..(IF MaxConns > MaxJobs THEN MaxConns ELSE MaxJobs)

\* Option::None
None == [tag |-> "None"]

\* Result<Job, RecvError> of recv, and "no message" before the first recv
NoMsg   == [tag |-> "none"]
RecvErr == [tag |-> "Err"]
OkJob(j) == [tag |-> "Ok", job |-> j]

VARIABLES
    main,        \* position of the thread that owns the pool
    unwinding,   \* TRUE when the owner is already panicking while it drops the pool
    mainFault,   \* which unwrap() brought the owner down: "none", "bind", "accept", "send", "join"
    sender,      \* ThreadPool.sender is Some(_): the sending side is open
    handles,     \* ThreadPool.workers: the workers whose JoinHandle the pool still owns
    queue,       \* the channel's buffer: jobs sent and not yet received
    guard,       \* the workers that own a MutexGuard of the receiver
    wpc,         \* position of each worker thread in its loop
    msg,         \* each worker's local `message`
    nextJob,     \* the next job the owner will create
    jobpc,       \* position of each job (closure)
    claims,      \* history: how many times a recv has returned the job
    runs,        \* history: how many times the job has been called
    sentAllBusy, \* history: some execute ran while every worker was inside job()
    handlers,    \* Server.handlers: the route table, the matchers in registration order
    req,         \* each job's local `request` once parsed
    sel,         \* each job's local `handler`: the index find returned
    resp,        \* each job's local `response`
    invoked,     \* the handlers the job has called, in order (kept while the job lives)
    written,     \* the responses the job has written to its connection, in order
                 \* (kept while the job lives)
    input,       \* the argument a function of the request library is called with
    output,      \* the function called and the value it returned, None before the call
    builder,     \* a RequestBuilder under construction
    calls        \* history: the add_header / add_query_param calls made on the builder

vars == <<main, unwinding, mainFault, sender, handles, queue, guard, wpc, msg,
          nextJob, jobpc, claims, runs, sentAllBusy,
          handlers, req, sel, resp, invoked, written,
          input, output, builder, calls>>

ownerVars  == <<main, unwinding, mainFault, sender, handles, nextJob>>
workerVars == <<guard, wpc, msg>>
jobHist    == <<claims, runs>>
srvVars    == <<handlers, req, sel, resp, invoked, written>>
libVars    == <<input, output, builder, calls>>

(* --------------------------- request/mod.rs ---------------------------- *)
\* Text is a sequence of one-character strings.
RECURSIVE FindAt(_, _, _)
\* the first position >= i at which d occurs in s, or 0
FindAt(s, d, i) ==
    IF i + Len(d) - 1 > Len(s) THEN 0
    ELSE IF SubSeq(s, i, i + Len(d) - 1) = d THEN i
    ELSE FindAt(s, d, i + 1)

RECURSIVE Split(_, _)
\* str::split(d): the pieces between the occurrences of d, at least one piece
Split(s, d) ==
    LET i == FindAt(s, d, 1) IN
    IF i = 0 THEN <<s>>
    ELSE <<SubSeq(s, 1, i - 1)>> \o Split(SubSeq(s, i + Len(d), Len(s)), d)

\* request/mod.rs:5-11  enum RequestMethod
RequestMethods == {"GET", "POST", "PUT", "DELETE"}

\* mutant: the method is matched without regard to case
RequestMethod_parse_nocase(method) ==
    IF method \in {<<"G", "E", "T">>, <<"g", "e", "t">>} THEN "GET"
    ELSE IF method = <<"P", "O", "S", "T">> THEN "POST"
    ELSE IF method = <<"P", "U", "T">> THEN "PUT"
    ELSE IF method = <<"D", "E", "L", "E", "T", "E">> THEN "DELETE"
    ELSE "None"

\* request/mod.rs:28-36  RequestMethod::parse
RequestMethod_parse(method) ==
    IF method = <<"G", "E", "T">> THEN "GET"
    ELSE IF method = <<"P", "O", "S", "T">> THEN "POST"
    ELSE IF method = <<"P", "U", "T">> THEN "PUT"
    ELSE IF method = <<"D", "E", "L", "E", "T", "E">> THEN "DELETE"
    ELSE "None"

Ok(v)    == [ok |-> TRUE, val |-> v]
Err(kind, text) == [ok |-> FALSE, err |-> <<kind, text>>]

\* request/mod.rs:149-159  parse_query_param_values
parse_query_param_values(query_param_values) ==
    LET values == Split(query_param_values, <<",">>) IN
    IF values = <<>>
    THEN Err("Invalid query param value: ", query_param_values)
    ELSE Ok(values)

\* request/mod.rs:134-147  parse_query_param
parse_query_param(query_param) ==
    LET query_param_parts == Split(query_param, <<"=">>) IN
    IF Len(query_param_parts) < 2
    THEN Err("Invalid query param: ", query_param)
    ELSE LET param_values == parse_query_param_values(query_param_parts[2]) IN
         IF ~param_values.ok THEN param_values
         ELSE Ok(<<query_param_parts[1], param_values.val>>)

\* mutant: HashMap insert(name, values), the values the name held are dropped
Extend_insert(map, name, values) ==
    [n \in DOMAIN map \cup {name} |-> IF n = name THEN values ELSE map[n]]

\* HashMap entry(name).or_default().extend(values)
Extend(map, name, values) ==
    [n \in DOMAIN map \cup {name} |->
        (IF n \in DOMAIN map THEN map[n] ELSE <<>>) \o (IF n = name THEN values ELSE <<>>)]

EmptyMap == [n \in {} |-> <<>>]

RECURSIVE QueryLoop(_, _, _)
\* request/mod.rs:123-129  the for loop of parse_query_params
QueryLoop(query_params, i, result) ==
    IF i > Len(query_params) THEN Ok(result)
    ELSE LET p == parse_query_param(query_params[i]) IN
         IF ~p.ok THEN p
         ELSE QueryLoop(query_params, i + 1, Extend(result, p.val[1], p.val[2]))

\* request/mod.rs:119-132  parse_query_params
parse_query_params(query_str) ==
    QueryLoop(Split(query_str, <<"&">>), 1, EmptyMap)

\* request/mod.rs:100-117  parse_path: the first piece is the url, the second
\* piece (if any, and not empty) is the query string
parse_path(path) ==
    LET path_parts == Split(path, <<"&">>) IN
    LET url == path_parts[1] IN
    IF Len(path_parts) < 2 \/ path_parts[2] = <<>>
    THEN Ok(<<url, EmptyMap>>)
    ELSE LET query_params == parse_query_params(path_parts[2]) IN
         IF ~query_params.ok THEN query_params
         ELSE Ok(<<url, query_params.val>>)

\* request/mod.rs:78-98  parse_request_line
parse_request_line(request_line) ==
    LET request_line_parts == Split(request_line, <<" ">>) IN
    LET request_method == RequestMethod_parse(request_line_parts[1]) IN
    IF request_method = "None" THEN Err("Invalid request line: ", request_line)
    ELSE IF Len(request_line_parts) < 2 THEN Err("Invalid request line: ", request_line)
    ELSE Ok(<<request_method, request_line_parts[2]>>)

\* request/mod.rs:13-18,40-47  struct Request, built from the parsed parts
Request_new(method, url, headers, query_params) ==
    [method |-> method, url |-> url, headers |-> headers, query_params |-> query_params]

\* the value Request::parse returns on success: the Request made of the
\* method, the url and the query parameters parsed from the request line
Request_parsed(method, url, query_params) ==
    Ok(Request_new(method, url, EmptyMap, query_params))

\* request/mod.rs:49-58  Request::parse
Request_parse(request_str) ==
    LET parts == Split(request_str, <<"\r", "\n">>) IN
    LET line == parse_request_line(parts[1]) IN
    IF ~line.ok THEN line
    ELSE LET path == parse_path(line.val[2]) IN
         IF ~path.ok THEN path
         ELSE Request_parsed(line.val[1], path.val[1], path.val[2])

(* ------------------------- request/matcher.rs -------------------------- *)
\* matcher.rs:21-35,42-59  RequestMatcher::<method>().url(url).build()
RequestMatcher_build(method, url) == [method |-> method, url |-> url]

\* mutant: the matcher looks at the url only
matches_url_only(matcher, request) == matcher.url = request.url

\* matcher.rs:37-39  RequestMatcher::matches
matches(matcher, request) ==
    matcher.method = request.method /\ matcher.url = request.url

(* --------------------------- response/mod.rs --------------------------- *)
\* response/mod.rs:8-12,62-86  Response::builder().code(c).body(b).build()
Response_build(code, body) == [code |-> code, body |-> body, headers |-> EmptyMap]

(* ------------------------------ server.rs ------------------------------ *)
\* server.rs:187-192  not_found_response
\* mutant: the not-found response carries the success code
not_found_response_ok == Response_build(200, "Requested page has not been found")

not_found_response == Response_build(404, "Requested page has not been found")

\* server.rs:194-201  server_error_response
server_error_response(error) ==
    Response_build(500, <<"Something went wrong: ", error>>)

RECURSIVE FindFrom(_, _, _)
\* Iterator::find over thread_handlers.iter(): the entries are tried from the
\* front and the scan stops at the first match
FindFrom(hs, request, i) ==
    IF i > Len(hs) THEN None
    ELSE IF matches(hs[i], request) THEN [tag |-> "Some", idx |-> i]
    ELSE FindFrom(hs, request, i + 1)

RECURSIVE FindBack(_, _, _)
FindBack(hs, request, i) ==
    IF i < 1 THEN None
    ELSE IF matches(hs[i], request) THEN [tag |-> "Some", idx |-> i]
    ELSE FindBack(hs, request, i - 1)

\* mutant: the table is scanned from the back (rfind), the last match wins
find_handler_last(hs, request) == FindBack(hs, request, Len(hs))

\* server.rs:121  thread_handlers.iter().find(|h| h.matcher.matches(&request))
find_handler(hs, request) == FindFrom(hs, request, 1)

(* ----------------------------- worker.rs ------------------------------ *)
\* a worker thread that has not returned from its closure
Terminated(w) == wpc[w] \in {"exited", "panicked"}
LiveWorkers   == {w \in Workers : ~Terminated(w)}

\* The Receiver lives in an Arc cloned into every worker closure (the clone
\* ThreadPool::new holds is dropped when new returns): it is dropped when the
\* last worker thread has ended.
ReceiverAlive == LiveWorkers # {}

\* abort() of the process ends every thread
ProcessAlive == main # "aborted"

\* the states of a job in which its body is being executed
InBody == {"run", "route", "handle", "write"}
Executing(j) == jobpc[j] \in InBody

\* the workers that are inside the call job()
BusyWorkers == {w \in Workers : wpc[w] = "job"}

\* mutant: the receiver is shared without the Mutex
Worker_lock_unguarded(w) ==
    /\ ProcessAlive
    /\ wpc[w] = "lock"
    /\ guard' = guard \cup {w}
    /\ wpc' = [wpc EXCEPT ![w] = "recv"]
    /\ UNCHANGED <<ownerVars, queue, msg, jobpc, jobHist, sentAllBusy, srvVars>>
    /\ UNCHANGED libVars

\* worker.rs:17  receiver.lock(): blocks until no other guard exists
Worker_lock(w) ==
    /\ ProcessAlive
    /\ wpc[w] = "lock"
    /\ guard = {}
    /\ guard' = guard \cup {w}
    /\ wpc' = [wpc EXCEPT ![w] = "recv"]
    /\ UNCHANGED <<ownerVars, queue, msg, jobpc, jobHist, sentAllBusy, srvVars>>
    /\ UNCHANGED libVars

\* mutant: a closed channel reports Err at once, what is still buffered is lost
Worker_recv_discard(w) ==
    /\ ProcessAlive
    /\ wpc[w] = "recv"
    /\ \/ /\ sender
          /\ queue # <<>>
          /\ msg' = [msg EXCEPT ![w] = OkJob(Head(queue))]
          /\ queue' = Tail(queue)
          /\ claims' = [claims EXCEPT ![Head(queue)] = @ + 1]
          /\ jobpc' = [jobpc EXCEPT ![Head(queue)] = "claimed"]
       \/ /\ ~sender
          /\ msg' = [msg EXCEPT ![w] = RecvErr]
          /\ UNCHANGED <<queue, claims, jobpc>>
    /\ wpc' = [wpc EXCEPT ![w] = "guard"]
    /\ UNCHANGED <<ownerVars, guard, runs, sentAllBusy, srvVars>>
    /\ UNCHANGED libVars

\* mutant: the buffer is a stack, recv takes the job sent last
Worker_recv_lifo(w) ==
    /\ ProcessAlive
    /\ wpc[w] = "recv"
    /\ \/ /\ queue # <<>>
          /\ msg' = [msg EXCEPT ![w] = OkJob(queue[Len(queue)])]
          /\ queue' = SubSeq(queue, 1, Len(queue) - 1)
          /\ claims' = [claims EXCEPT ![queue[Len(queue)]] = @ + 1]
          /\ jobpc' = [jobpc EXCEPT ![queue[Len(queue)]] = "claimed"]
       \/ /\ queue = <<>>
          /\ ~sender
          /\ msg' = [msg EXCEPT ![w] = RecvErr]
          /\ UNCHANGED <<queue, claims, jobpc>>
    /\ wpc' = [wpc EXCEPT ![w] = "guard"]
    /\ UNCHANGED <<ownerVars, guard, runs, sentAllBusy, srvVars>>
    /\ UNCHANGED libVars

\* mutant: try_recv instead of recv, an empty buffer is reported as Err
Worker_recv_try(w) ==
    /\ ProcessAlive
    /\ wpc[w] = "recv"
    /\ \/ /\ queue # <<>>
          /\ msg' = [msg EXCEPT ![w] = OkJob(Head(queue))]
          /\ queue' = Tail(queue)
          /\ claims' = [claims EXCEPT ![Head(queue)] = @ + 1]
          /\ jobpc' = [jobpc EXCEPT ![Head(queue)] = "claimed"]
       \/ /\ queue = <<>>
          /\ msg' = [msg EXCEPT ![w] = RecvErr]
          /\ UNCHANGED <<queue, claims, jobpc>>
    /\ wpc' = [wpc EXCEPT ![w] = "guard"]
    /\ UNCHANGED <<ownerVars, guard, runs, sentAllBusy, srvVars>>
    /\ UNCHANGED libVars

\* mutant: the head of the buffer is read but not removed
Worker_recv_peek(w) ==
    /\ ProcessAlive
    /\ wpc[w] = "recv"
    /\ \/ /\ queue # <<>>
          /\ msg' = [msg EXCEPT ![w] = OkJob(Head(queue))]
          /\ claims' = [claims EXCEPT ![Head(queue)] = @ + 1]
          /\ jobpc' = [jobpc EXCEPT ![Head(queue)] = "claimed"]
          /\ UNCHANGED queue
       \/ /\ queue = <<>>
          /\ ~sender
          /\ msg' = [msg EXCEPT ![w] = RecvErr]
          /\ UNCHANGED <<queue, claims, jobpc>>
    /\ wpc' = [wpc EXCEPT ![w] = "guard"]
    /\ UNCHANGED <<ownerVars, guard, runs, sentAllBusy, srvVars>>
    /\ UNCHANGED libVars

\* mutant: recv never reports the disconnection, it blocks on an empty buffer
Worker_recv_forever(w) ==
    /\ ProcessAlive
    /\ wpc[w] = "recv"
    /\ queue # <<>>
    /\ msg' = [msg EXCEPT ![w] = OkJob(Head(queue))]
    /\ queue' = Tail(queue)
    /\ claims' = [claims EXCEPT ![Head(queue)] = @ + 1]
    /\ jobpc' = [jobpc EXCEPT ![Head(queue)] = "claimed"]
    /\ wpc' = [wpc EXCEPT ![w] = "guard"]
    /\ UNCHANGED <<ownerVars, guard, runs, sentAllBusy, srvVars>>
    /\ UNCHANGED libVars

\* worker.rs:17  .recv() under the guard: the head of the buffer, or Err once
\* the buffer is empty and the Sender is gone; blocks otherwise
Worker_recv(w) ==
    /\ ProcessAlive
    /\ wpc[w] = "recv"
    /\ \/ /\ queue # <<>>
          /\ msg' = [msg EXCEPT ![w] = OkJob(Head(queue))]
          /\ queue' = Tail(queue)
          /\ claims' = [claims EXCEPT ![Head(queue)] = @ + 1]
          /\ jobpc' = [jobpc EXCEPT ![Head(queue)] = "claimed"]
       \/ /\ queue = <<>>
          /\ ~sender
          /\ msg' = [msg EXCEPT ![w] = RecvErr]
          /\ UNCHANGED <<queue, claims, jobpc>>
    /\ wpc' = [wpc EXCEPT ![w] = "guard"]
    /\ UNCHANGED <<ownerVars, guard, runs, sentAllBusy, srvVars>>
    /\ UNCHANGED libVars

\* mutant: the guard is bound to the scope of the loop body (while let)
Worker_keep_guard(w) ==
    /\ ProcessAlive
    /\ wpc[w] = "guard"
    /\ wpc' = [wpc EXCEPT ![w] = "match"]
    /\ UNCHANGED <<ownerVars, queue, guard, msg, jobpc, jobHist, sentAllBusy, srvVars>>
    /\ UNCHANGED libVars

\* worker.rs:17  end of the let statement: the temporary MutexGuard is dropped
Worker_drop_guard(w) ==
    /\ ProcessAlive
    /\ wpc[w] = "guard"
    /\ guard' = guard \ {w}
    /\ wpc' = [wpc EXCEPT ![w] = "match"]
    /\ UNCHANGED <<ownerVars, queue, msg, jobpc, jobHist, sentAllBusy, srvVars>>
    /\ UNCHANGED libVars

\* mutant: the job is started on a thread of its own and the worker goes on
Worker_call_job_detached(w) ==
    /\ ProcessAlive
    /\ wpc[w] = "match"
    /\ msg[w].tag = "Ok"
    /\ wpc' = [wpc EXCEPT ![w] = "lock"]
    /\ jobpc' = [jobpc EXCEPT ![msg[w].job] = "run"]
    /\ runs' = [runs EXCEPT ![msg[w].job] = @ + 1]
    /\ UNCHANGED <<ownerVars, queue, guard, msg, claims, sentAllBusy, srvVars>>
    /\ UNCHANGED libVars

\* worker.rs:19-23  match message { Ok(job) => { println!; job() } ... }:
\* the worker calls the job and stays in the call until it returns
Worker_call_job(w) ==
    /\ ProcessAlive
    /\ wpc[w] = "match"
    /\ msg[w].tag = "Ok"
    /\ wpc' = [wpc EXCEPT ![w] = "job"]
    /\ jobpc' = [jobpc EXCEPT ![msg[w].job] = "run"]
    /\ runs' = [runs EXCEPT ![msg[w].job] = @ + 1]
    /\ UNCHANGED <<ownerVars, queue, guard, msg, claims, sentAllBusy, srvVars>>
    /\ UNCHANGED libVars

\* worker.rs:24-27  Err(_) => { println!; break }: the thread ends cleanly
Worker_break(w) ==
    /\ ProcessAlive
    /\ wpc[w] = "match"
    /\ msg[w].tag = "Err"
    /\ wpc' = [wpc EXCEPT ![w] = "exited"]
    /\ UNCHANGED <<ownerVars, queue, guard, msg, jobpc, jobHist, sentAllBusy, srvVars>>
    /\ UNCHANGED libVars

\* worker.rs:22,28  job() returned: the closure and the connection it owned
\* are gone, next iteration of the loop
Worker_job_returned(w) ==
    /\ ProcessAlive
    /\ wpc[w] = "job"
    /\ msg[w].tag = "Ok"
    /\ jobpc[msg[w].job] = "done"
    /\ wpc' = [wpc EXCEPT ![w] = "lock"]
    /\ msg' = [msg EXCEPT ![w] = NoMsg]
    /\ invoked' = [invoked EXCEPT ![msg[w].job] = <<>>]
    /\ written' = [written EXCEPT ![msg[w].job] = <<>>]
    /\ UNCHANGED <<ownerVars, queue, guard, jobpc, jobHist, sentAllBusy,
                   handlers, req, sel, resp>>
    /\ UNCHANGED libVars

\* mutant: the loop catches the unwind of job() and goes on to the next job
Worker_job_caught(w) ==
    /\ ProcessAlive
    /\ wpc[w] = "job"
    /\ msg[w].tag = "Ok"
    /\ jobpc[msg[w].job] = "faulted"
    /\ wpc' = [wpc EXCEPT ![w] = "lock"]
    /\ msg' = [msg EXCEPT ![w] = NoMsg]
    /\ guard' = guard \ {w}
    /\ invoked' = [invoked EXCEPT ![msg[w].job] = <<>>]
    /\ written' = [written EXCEPT ![msg[w].job] = <<>>]
    /\ UNCHANGED <<ownerVars, queue, jobpc, jobHist, sentAllBusy,
                   handlers, req, sel, resp>>
    /\ UNCHANGED libVars

\* worker.rs:22  job() panicked: nothing in the loop catches it, the thread
\* unwinds (dropping the closure and all it owns) and ends
Worker_job_panicked(w) ==
    /\ ProcessAlive
    /\ wpc[w] = "job"
    /\ msg[w].tag = "Ok"
    /\ jobpc[msg[w].job] = "faulted"
    /\ wpc' = [wpc EXCEPT ![w] = "panicked"]
    /\ msg' = [msg EXCEPT ![w] = NoMsg]
    /\ guard' = guard \ {w}
    /\ invoked' = [invoked EXCEPT ![msg[w].job] = <<>>]
    /\ written' = [written EXCEPT ![msg[w].job] = <<>>]
    /\ UNCHANGED <<ownerVars, queue, jobpc, jobHist, sentAllBusy,
                   handlers, req, sel, resp>>
    /\ UNCHANGED libVars

(* ------------------------ the job, seen by the pool -------------------- *)
\* Job = Box<dyn FnOnce() + Send>: to the pool its body is opaque, it
\* returns or it panics
Job_return(j) ==
    /\ ProcessAlive
    /\ jobpc[j] = "run"
    /\ jobpc' = [jobpc EXCEPT ![j] = "done"]
    /\ UNCHANGED <<ownerVars, workerVars, queue, jobHist, sentAllBusy, srvVars>>
    /\ UNCHANGED libVars

Job_panic(j) ==
    /\ ProcessAlive
    /\ jobpc[j] = "run"
    /\ jobpc' = [jobpc EXCEPT ![j] = "faulted"]
    /\ UNCHANGED <<ownerVars, workerVars, queue, jobHist, sentAllBusy, srvVars>>
    /\ UNCHANGED libVars

(* --------------------------- thread_pool.rs ---------------------------- *)
\* mutant: send fails as soon as one worker thread has ended
execute_any_dead(j) ==
    IF LiveWorkers = Workers
    THEN /\ queue' = Append(queue, j)
         /\ jobpc' = [jobpc EXCEPT ![j] = "queued"]
         /\ UNCHANGED <<main, unwinding, mainFault>>
    ELSE /\ main' = "drop_sender"
         /\ unwinding' = TRUE
         /\ mainFault' = "send"
         /\ UNCHANGED <<queue, jobpc>>

\* mutant: a rendezvous channel, send waits for a worker that is not busy
execute_rendezvous(j) ==
    /\ BusyWorkers # Workers
    /\ IF ReceiverAlive
       THEN /\ queue' = Append(queue, j)
            /\ jobpc' = [jobpc EXCEPT ![j] = "queued"]
            /\ UNCHANGED <<main, unwinding, mainFault>>
       ELSE /\ main' = "drop_sender"
            /\ unwinding' = TRUE
            /\ mainFault' = "send"
            /\ UNCHANGED <<queue, jobpc>>

\* thread_pool.rs:35-42  execute: box the task and send it; send fails only
\* when the Receiver has been dropped, and the unwrap then panics
execute(j) ==
    IF ReceiverAlive
    THEN /\ queue' = Append(queue, j)
         /\ jobpc' = [jobpc EXCEPT ![j] = "queued"]
         /\ UNCHANGED <<main, unwinding, mainFault>>
    ELSE /\ main' = "drop_sender"
         /\ unwinding' = TRUE
         /\ mainFault' = "send"
         /\ UNCHANGED <<queue, jobpc>>

\* server.rs:112-131  one iteration of the accept loop: a connection arrives
\* and its closure is handed to the pool
Accept ==
    /\ main = "accept"
    /\ nextJob <= MaxJobs
    /\ execute(nextJob)
    /\ nextJob' = nextJob + 1
    /\ sentAllBusy' = (sentAllBusy \/ BusyWorkers = Workers)
    /\ UNCHANGED <<sender, handles, workerVars, jobHist, srvVars>>
    /\ UNCHANGED libVars

\* server.rs:113  stream.unwrap() on a failed accept: the owner panics and the
\* pool is dropped while unwinding.  Nothing another thread can see lies
\* between the panic and the first statement of the drop (thread_pool.rs:51),
\* which closes the channel, so the two are one step.
AcceptFail ==
    /\ main = "accept"
    /\ main' = "join"
    /\ sender' = FALSE
    /\ unwinding' = TRUE
    /\ mainFault' = "accept"
    /\ UNCHANGED <<handles, nextJob, queue, workerVars, jobpc, jobHist, sentAllBusy, srvVars>>
    /\ UNCHANGED libVars

\* the owner of a ThreadPool lets it go out of scope
OwnerDrop ==
    /\ main = "accept"
    /\ main' = "drop_sender"
    /\ UNCHANGED <<unwinding, mainFault, sender, handles, nextJob, queue,
                   workerVars, jobpc, jobHist, sentAllBusy, srvVars>>
    /\ UNCHANGED libVars

\* thread_pool.rs:51  drop(self.sender.take())
Drop_sender ==
    /\ main = "drop_sender"
    /\ sender' = FALSE
    /\ main' = "join"
    /\ UNCHANGED <<unwinding, mainFault, handles, nextJob, queue, workerVars,
                   jobpc, jobHist, sentAllBusy, srvVars>>
    /\ UNCHANGED libVars

\* the next element of self.workers.drain(..)
NextHandle == CHOOSE w \in handles : \A v \in handles : w <= v

\* thread_pool.rs:52-55  worker.join().unwrap(): blocks until the thread has
\* ended; Err when it ended by a panic, and the unwrap panics in turn.  A
\* panic while the owner is already unwinding aborts the process; otherwise it
\* leaves drop, and the Drain drops (detaches) the handles not yet joined.
Drop_join ==
    /\ main = "join"
    /\ handles # {}
    /\ Terminated(NextHandle)
    /\ IF wpc[NextHandle] = "exited"
       THEN /\ handles' = handles \ {NextHandle}
            /\ UNCHANGED <<main, mainFault>>
       ELSE /\ handles' = {}
            /\ main' = IF unwinding THEN "aborted" ELSE "panicked"
            /\ mainFault' = IF unwinding THEN mainFault ELSE "join"
    /\ UNCHANGED <<unwinding, sender, nextJob, queue, workerVars, jobpc, jobHist, sentAllBusy, srvVars>>
    /\ UNCHANGED libVars

\* thread_pool.rs:56  drop returns: to the owner, or to the unwinding
Drop_return ==
    /\ main = "join"
    /\ handles = {}
    /\ main' = IF unwinding THEN "panicked" ELSE "dropped"
    /\ UNCHANGED <<unwinding, mainFault, sender, handles, nextJob, queue,
                   workerVars, jobpc, jobHist, sentAllBusy, srvVars>>
    /\ UNCHANGED libVars

(* ------------------- server.rs: builder, start, the job ---------------- *)
\* the matchers a configuration may register
Matchers == { RequestMatcher_build("GET",  <<"/", "a">>),
              RequestMatcher_build("POST", <<"/", "b">>) }

\* the request texts a client may send on a connection: one that a matcher
\* can match, one that differs from each matcher in the method or in the url,
\* and one whose method is not a RequestMethod
Wire == { <<"G", "E", "T", " ", "/", "a", "\r", "\n">>,
          <<"P", "O", "S", "T", " ", "/", "a">>,
          <<"g", "e", "t", " ", "/", "a">> }

\* HandlerFn is an opaque Fn(Request) -> Response; the handler registered i-th
\* is told apart by the body of its response
HandlerResponse(i, request) == Response_build(200, <<"handler", i>>)

\* server.rs:167-180  ServerBuilder::register_handler
register_handler(request_matcher) ==
    /\ main = "builder"
    /\ Len(handlers) < MaxRoutes
    /\ handlers' = Append(handlers, request_matcher)
    /\ UNCHANGED <<ownerVars, queue, workerVars, jobpc, jobHist, sentAllBusy,
                   req, sel, resp, invoked, written>>
    /\ UNCHANGED libVars

\* server.rs:84-94,182-184  ServerBuilder::build -> Server::new -> ThreadPool::new
Server_build ==
    /\ main = "builder"
    /\ main' = "built"
    /\ sender' = TRUE
    /\ handles' = Workers
    /\ wpc' = [w \in Workers |-> "lock"]
    /\ UNCHANGED <<unwinding, mainFault, nextJob, queue, guard, msg, jobpc, jobHist,
                   sentAllBusy, srvVars>>
    /\ UNCHANGED libVars

\* server.rs:104-110  Server::start up to the loop: bind, fatal when it fails
Server_start ==
    /\ main = "built"
    /\ \/ /\ main' = "accept"
          /\ UNCHANGED <<unwinding, mainFault>>
       \/ /\ main' = "drop_sender"
          /\ unwinding' = TRUE
          /\ mainFault' = "bind"
    /\ UNCHANGED <<sender, handles, nextJob, queue, workerVars, jobpc, jobHist,
                   sentAllBusy, srvVars>>
    /\ UNCHANGED libVars

\* server.rs:112-131  the accept loop of the server
Server_accept ==
    /\ nextJob <= MaxConns
    /\ Accept

\* mutant: Request::parse(&mut stream).unwrap(), a parse failure panics
Job_parse_unwrap(j) ==
    /\ ProcessAlive
    /\ jobpc[j] = "run"
    /\ \E text \in Wire :
          LET request == Request_parse(text) IN
          IF request.ok
          THEN /\ req' = [req EXCEPT ![j] = request.val]
               /\ jobpc' = [jobpc EXCEPT ![j] = "route"]
          ELSE /\ jobpc' = [jobpc EXCEPT ![j] = "faulted"]
               /\ UNCHANGED req
    /\ UNCHANGED <<ownerVars, workerVars, queue, jobHist, sentAllBusy,
                   handlers, sel, resp, invoked, written>>
    /\ UNCHANGED libVars

\* server.rs:117,119,129  let request = Request::parse(&mut stream); on Err the
\* response is server_error_response(e) and routing is skipped
Job_parse(j) ==
    /\ ProcessAlive
    /\ jobpc[j] = "run"
    /\ \E text \in Wire :
          LET request == Request_parse(text) IN
          IF request.ok
          THEN /\ req' = [req EXCEPT ![j] = request.val]
               /\ jobpc' = [jobpc EXCEPT ![j] = "route"]
               /\ UNCHANGED resp
          ELSE /\ resp' = [resp EXCEPT ![j] = server_error_response(request.err)]
               /\ jobpc' = [jobpc EXCEPT ![j] = "write"]
               /\ UNCHANGED req
    /\ UNCHANGED <<ownerVars, workerVars, queue, jobHist, sentAllBusy,
                   handlers, sel, invoked, written>>
    /\ UNCHANGED libVars

\* server.rs:121-125  find the handler; None => not_found_response()
Job_route(j) ==
    /\ ProcessAlive
    /\ jobpc[j] = "route"
    /\ LET handler == find_handler(handlers, req[j]) IN
       IF handler.tag = "Some"
       THEN /\ sel' = [sel EXCEPT ![j] = handler]
            /\ jobpc' = [jobpc EXCEPT ![j] = "handle"]
            /\ UNCHANGED <<req, resp>>
       ELSE /\ resp' = [resp EXCEPT ![j] = not_found_response]
            /\ req' = [req EXCEPT ![j] = None]
            /\ jobpc' = [jobpc EXCEPT ![j] = "write"]
            /\ UNCHANGED sel
    /\ UNCHANGED <<ownerVars, workerVars, queue, jobHist, sentAllBusy,
                   handlers, invoked, written>>
    /\ UNCHANGED libVars

\* server.rs:123  Some(handler) => (handler.handler_fn)(request): the handler
\* consumes the request and returns a response, or panics
Job_handle(j) ==
    /\ ProcessAlive
    /\ jobpc[j] = "handle"
    /\ invoked' = [invoked EXCEPT ![j] = Append(@, sel[j].idx)]
    /\ req' = [req EXCEPT ![j] = None]
    /\ sel' = [sel EXCEPT ![j] = None]
    /\ \/ /\ resp' = [resp EXCEPT ![j] = HandlerResponse(sel[j].idx, req[j])]
          /\ jobpc' = [jobpc EXCEPT ![j] = "write"]
       \/ /\ jobpc' = [jobpc EXCEPT ![j] = "faulted"]
          /\ UNCHANGED resp
    /\ UNCHANGED <<ownerVars, workerVars, queue, jobHist, sentAllBusy,
                   handlers, written>>
    /\ UNCHANGED libVars

\* mutant: a keep-alive connection, after the write the closure parses the
\* next request of the same connection
Job_write_keepalive(j) ==
    /\ ProcessAlive
    /\ jobpc[j] = "write"
    /\ resp' = [resp EXCEPT ![j] = None]
    /\ \/ /\ written' = [written EXCEPT ![j] = <<resp[j]>>]
          /\ jobpc' = [jobpc EXCEPT ![j] = "run"]
       \/ /\ jobpc' = [jobpc EXCEPT ![j] = "faulted"]
          /\ UNCHANGED written
    /\ UNCHANGED <<ownerVars, workerVars, queue, jobHist, sentAllBusy,
                   handlers, req, sel, invoked>>
    /\ UNCHANGED libVars

\* server.rs:130  response.write(&mut stream).unwrap(): one write_all of the
\* serialized response; when it fails the unwrap panics
Job_write(j) ==
    /\ ProcessAlive
    /\ jobpc[j] = "write"
    /\ resp' = [resp EXCEPT ![j] = None]
    /\ \/ /\ written' = [written EXCEPT ![j] = Append(@, resp[j])]
          /\ jobpc' = [jobpc EXCEPT ![j] = "done"]
       \/ /\ jobpc' = [jobpc EXCEPT ![j] = "faulted"]
          /\ UNCHANGED written
    /\ UNCHANGED <<ownerVars, workerVars, queue, jobHist, sentAllBusy,
                   handlers, req, sel, invoked>>
    /\ UNCHANGED libVars

\* the request library is not in use
LibIdle == input = None /\ output = None /\ builder = None /\ calls = <<>>

\* thread_pool.rs:18-33  ThreadPool::new(PoolSize): the channel, the shared
\* receiver and PoolSize running workers
Init ==
    /\ main = "accept"
    /\ unwinding = FALSE
    /\ mainFault = "none"
    /\ sender = TRUE
    /\ handles = Workers
    /\ queue = <<>>
    /\ guard = {}
    /\ wpc = [w \in Workers |-> "lock"]
    /\ msg = [w \in Workers |-> NoMsg]
    /\ nextJob = 1
    /\ jobpc = [j \in Jobs |-> "new"]
    /\ claims = [j \in Jobs |-> 0]
    /\ runs = [j \in Jobs |-> 0]
    /\ sentAllBusy = FALSE
    /\ handlers = <<>>
    /\ req = [j \in Jobs |-> None]
    /\ sel = [j \in Jobs |-> None]
    /\ resp = [j \in Jobs |-> None]
    /\ invoked = [j \in Jobs |-> <<>>]
    /\ written = [j \in Jobs |-> <<>>]
    /\ LibIdle

WorkerStep(w) ==
    \/ Worker_lock(w)
    \/ Worker_recv(w)
    \/ Worker_drop_guard(w)
    \/ Worker_call_job(w)
    \/ Worker_break(w)
    \/ Worker_job_returned(w)
    \/ Worker_job_panicked(w)

Next ==
    \/ Accept
    \/ AcceptFail
    \/ OwnerDrop
    \/ Drop_sender
    \/ Drop_join
    \/ Drop_return
    \/ \E w \in Workers : WorkerStep(w)
    \/ \E j \in Jobs : Job_return(j)
    \/ \E j \in Jobs : Job_panic(j)

Spec == Init /\ [][Next]_vars

\* server.rs:95-102  Server::builder(config): no handler yet, no pool yet
Unbuilt ==
    /\ main = "builder"
    /\ unwinding = FALSE
    /\ mainFault = "none"
    /\ sender = FALSE
    /\ handles = {}
    /\ queue = <<>>
    /\ guard = {}
    /\ wpc = [w \in Workers |-> "unspawned"]
    /\ msg = [w \in Workers |-> NoMsg]
    /\ nextJob = 1
    /\ jobpc = [j \in Jobs |-> "new"]
    /\ claims = [j \in Jobs |-> 0]
    /\ runs = [j \in Jobs |-> 0]
    /\ sentAllBusy = FALSE
    /\ handlers = <<>>
    /\ req = [j \in Jobs |-> None]
    /\ sel = [j \in Jobs |-> None]
    /\ resp = [j \in Jobs |-> None]
    /\ invoked = [j \in Jobs |-> <<>>]
    /\ written = [j \in Jobs |-> <<>>]

ServerInit == Unbuilt /\ LibIdle

\* the server: the pool's jobs are the closures Server::start builds
ServerNext ==
    \/ \E request_matcher \in Matchers : register_handler(request_matcher)
    \/ Server_build
    \/ Server_start
    \/ Server_accept
    \/ AcceptFail
    \/ Drop_sender
    \/ Drop_join
    \/ Drop_return
    \/ \E w \in Workers : WorkerStep(w)
    \/ \E j \in Jobs : Job_parse(j)
    \/ \E j \in Jobs : Job_route(j)
    \/ \E j \in Jobs : Job_handle(j)
    \/ \E j \in Jobs : Job_write(j)

ServerSpec == ServerInit /\ [][ServerNext]_vars

\* the steps worker thread w takes: those of its loop and, while it is inside
\* job(), the return of the job it called
WorkerThread(w) ==
    \/ WorkerStep(w)
    \/ \E j \in Jobs : wpc[w] = "job" /\ msg[w] = OkJob(j) /\ Job_return(j)

\* the steps of the owner once it is inside drop
OwnerTeardown == Drop_sender \/ Drop_join \/ Drop_return

\* Scheduling: the operating system runs every live thread again and again
\* (each worker, and the owner once it is inside drop), and the body of a job
\* terminates.  Nothing forces a connection to arrive or the owner to drop the
\* pool.  std's Mutex is not fair, so a lock attempt is only weakly fair.
Fairness ==
    /\ \A w \in Workers : WF_vars(WorkerThread(w))
    /\ WF_vars(OwnerTeardown)

FairSpec == Spec /\ Fairness

TypeOK ==
    /\ main \in {"builder", "built", "accept", "drop_sender", "join", "dropped",
                "panicked", "aborted"}
    /\ unwinding \in BOOLEAN
    /\ mainFault \in {"none", "bind", "accept", "send", "join"}
    /\ sender \in BOOLEAN
    /\ handles \subseteq Workers
    /\ guard \subseteq Workers
    /\ wpc \in [Workers -> {"unspawned", "lock", "recv", "guard", "match", "job",
                           "exited", "panicked"}]
    /\ handlers \in Seq(Matchers) /\ Len(handlers) <= MaxRoutes
    /\ \A j \in Jobs : Len(invoked[j]) <= 1 /\ Len(written[j]) <= 1
    /\ nextJob \in 1..(Cardinality(Jobs) + 1)
    /\ jobpc \in [Jobs -> {"new", "queued", "claimed", "done", "faulted"} \cup InBody]

(* ---------------- the request library, called on its own -------------- *)
\* number of '&'-separated segments of a query string or a path at most
MaxSegs == 2
\* number of space-delimited tokens of a request line at most
MaxTokens == 3
\* number of add_header / add_query_param calls on one builder at most
MaxCalls == 3

serverVars == <<ownerVars, workerVars, queue, jobpc, jobHist, sentAllBusy, srvVars>>

RECURSIVE Join(_, _)
\* the pieces written one after the other with d between them
Join(pieces, d) ==
    IF pieces = <<>> THEN <<>>
    ELSE IF Len(pieces) = 1 THEN pieces[1]
    ELSE pieces[1] \o d \o Join(Tail(pieces), d)

\* the sequences over S of length lo..hi
SeqsUpTo(S, lo, hi) == UNION {[1..n -> S] : n \in lo..hi}

\* query parameter names and values, and the value lists 'v' and 'v,w'
Names  == {<<"a">>, <<"b">>}
Values == {<<"1">>, <<"2">>, <<"3">>}
ValueLists == {<<v>> : v \in Values} \cup {<<v, w>> : v \in Values, w \in Values}

\* a query segment: 'name=v1,v2', or 'name' with no '=', or 'name=' with
\* nothing after the '='
Pair(n, vs) == [form |-> "pair",    name |-> n, values |-> vs]
NoEq(n)     == [form |-> "noeq",    name |-> n, values |-> <<>>]
NoValue(n)  == [form |-> "novalue", name |-> n, values |-> <<>>]
Segments ==
    {Pair(n, vs) : n \in Names, vs \in ValueLists}
        \cup {NoEq(n) : n \in Names} \cup {NoValue(n) : n \in Names}

\* the text of a segment, of a query string and of a path
SegText(seg) ==
    CASE seg.form = "pair"    -> seg.name \o <<"=">> \o Join(seg.values, <<",">>)
      [] seg.form = "noeq"    -> seg.name
      [] seg.form = "novalue" -> seg.name \o <<"=">>
QueryText(segs) == Join([i \in 1..Len(segs) |-> SegText(segs[i])], <<"&">>)
PathText(url, segs) ==
    Join(<<url>> \o [i \in 1..Len(segs) |-> SegText(segs[i])], <<"&">>)

\* the tokens of a request line: the four methods, a method in lower case, an
\* unknown method, the empty token and a path
MethodTokens == {<<"G", "E", "T">>, <<"P", "O", "S", "T">>, <<"P", "U", "T">>,
                 <<"D", "E", "L", "E", "T", "E">>}
Tokens == MethodTokens \cup {<<"g", "e", "t">>, <<"U", "N", "K", "N", "O", "W", "N">>,
                             <<>>, <<"/", "a">>}
LineText(tokens) == Join(tokens, <<" ">>)

\* urls that differ in case, in a trailing blank, or are empty
Urls == {<<"/", "a">>, <<"/", "A">>, <<"/", "a", " ">>, <<>>}

\* request/mod.rs:60-67  Request::builder()
Request_builder ==
    [method |-> "GET", url |-> <<>>, headers |-> EmptyMap, query_params |-> EmptyMap]

\* request/mod.rs:166-169  RequestBuilder::method
RequestBuilder_method(self, method) == [self EXCEPT !.method = method]

\* request/mod.rs:171-174  RequestBuilder::url
RequestBuilder_url(self, url_) == [self EXCEPT !.url = url_]

\* mutant: insert(name, vec![value]) replaces what the key held
add_header_insert(self, header_name, header_value) ==
    [self EXCEPT !.headers =
        [n \in DOMAIN @ \cup {header_name} |->
            IF n = header_name THEN <<header_value>> ELSE @[n]]]

\* request/mod.rs:176-188  RequestBuilder::add_header:
\* headers.entry(header_name).or_default().push(header_value)
add_header(self, header_name, header_value) ==
    [self EXCEPT !.headers = Extend(@, header_name, <<header_value>>)]

\* request/mod.rs:190-202  RequestBuilder::add_query_param
add_query_param(self, query_param_name, query_param_value) ==
    [self EXCEPT !.query_params = Extend(@, query_param_name, <<query_param_value>>)]

\* request/mod.rs:204-206  RequestBuilder::build
RequestBuilder_build(self) ==
    Request_new(self.method, self.url, self.headers, self.query_params)

\* HashMap::get: Some(&value) or None
Some(v) == [tag |-> "Some", val |-> v]
HashMap_get(map, key) == IF key \in DOMAIN map THEN Some(map[key]) ELSE None

\* request/mod.rs:69-71  Request::get_header
get_header(self, header_name) == HashMap_get(self.headers, header_name)

\* request/mod.rs:73-75  Request::get_query_param
get_query_param(self, query_param_name) == HashMap_get(self.query_params, query_param_name)

\* the requests a matcher is tried on
Requests ==
    {RequestBuilder_build(RequestBuilder_url(RequestBuilder_method(Request_builder, m), u)) :
        m \in RequestMethods, u \in Urls}

\* the arguments the functions are called with
LineInputs    == {[kind |-> "line", tokens |-> t] : t \in SeqsUpTo(Tokens, 0, MaxTokens)}
QueryInputs   == {[kind |-> "query", segs |-> q] : q \in SeqsUpTo(Segments, 1, MaxSegs)}
PathInputs    == {[kind |-> "path", url |-> u, segs |-> q] :
                     u \in {<<"/", "a">>, <<>>}, q \in SeqsUpTo(Segments, 0, MaxSegs)}
SegmentInputs == {[kind |-> "segment", seg |-> g] : g \in Segments}
MatchInputs   == {[kind |-> "match", method |-> m, url |-> u, request |-> r] :
                     m \in RequestMethods, u \in Urls, r \in Requests}

Returned(fn, val) == [fn |-> fn, val |-> val]

\* request/mod.rs:78-98  a call of parse_request_line
Call_parse_request_line ==
    /\ input.kind = "line" /\ output = None
    /\ output' = Returned("parse_request_line", parse_request_line(LineText(input.tokens)))
    /\ UNCHANGED <<input, builder, calls, serverVars>>

\* request/mod.rs:100-117  a call of parse_path
Call_parse_path ==
    /\ input.kind = "path" /\ output = None
    /\ output' = Returned("parse_path", parse_path(PathText(input.url, input.segs)))
    /\ UNCHANGED <<input, builder, calls, serverVars>>

\* request/mod.rs:119-132  a call of parse_query_params
Call_parse_query_params ==
    /\ input.kind = "query" /\ output = None
    /\ output' = Returned("parse_query_params", parse_query_params(QueryText(input.segs)))
    /\ UNCHANGED <<input, builder, calls, serverVars>>

\* request/mod.rs:134-147  a call of parse_query_param
Call_parse_query_param ==
    /\ input.kind = "segment" /\ output = None
    /\ output' = Returned("parse_query_param", parse_query_param(SegText(input.seg)))
    /\ UNCHANGED <<input, builder, calls, serverVars>>

\* matcher.rs:37-39  a call of matches on the matcher built for input.method
\* and input.url
Call_matches ==
    /\ input.kind = "match" /\ output = None
    /\ output' = Returned("matches",
                          matches(RequestMatcher_build(input.method, input.url), input.request))
    /\ UNCHANGED <<input, builder, calls, serverVars>>

ParseInit ==
    /\ Unbuilt
    /\ input \in LineInputs \cup QueryInputs \cup PathInputs \cup SegmentInputs \cup MatchInputs
    /\ output = None
    /\ builder = None
    /\ calls = <<>>

ParseNext ==
    \/ Call_parse_request_line
    \/ Call_parse_path
    \/ Call_parse_query_params
    \/ Call_parse_query_param
    \/ Call_matches

ParseSpec == ParseInit /\ [][ParseNext]_vars

\* header and query parameter names and values given to the builder
Keys      == {<<"X">>, <<"Y">>}
KeyValues == {<<"1">>, <<"2">>}
Called(fn, name, value) == [fn |-> fn, name |-> name, value |-> value]

\* request/mod.rs:176-188  builder = builder.add_header(name, value)
Builder_add_header(name, value) ==
    /\ builder # None /\ Len(calls) < MaxCalls
    /\ builder' = add_header(builder, name, value)
    /\ calls' = Append(calls, Called("add_header", name, value))
    /\ UNCHANGED <<input, output, serverVars>>

\* request/mod.rs:190-202  builder = builder.add_query_param(name, value)
Builder_add_query_param(name, value) ==
    /\ builder # None /\ Len(calls) < MaxCalls
    /\ builder' = add_query_param(builder, name, value)
    /\ calls' = Append(calls, Called("add_query_param", name, value))
    /\ UNCHANGED <<input, output, serverVars>>

\* request/mod.rs:204-206  builder.build() consumes the builder
Builder_build ==
    /\ builder # None
    /\ output' = Returned("build", RequestBuilder_build(builder))
    /\ builder' = None
    /\ UNCHANGED <<input, calls, serverVars>>

BuilderInit ==
    /\ Unbuilt
    /\ input = None
    /\ output = None
    /\ builder = Request_builder
    /\ calls = <<>>

BuilderNext ==
    \/ \E name \in Keys, value \in KeyValues : Builder_add_header(name, value)
    \/ \E name \in Keys, value \in KeyValues : Builder_add_query_param(name, value)
    \/ Builder_build

BuilderSpec == BuilderInit /\ [][BuilderNext]_vars

(* ============================== the claims ============================= *)
AnyFault == \E j \in Jobs : jobpc[j] = "faulted"
\* the workers that are inside the call of job j
CallersOf(j) == {w \in Workers : wpc[w] = "job" /\ msg[w] = OkJob(j)}
\* the jobs a worker is executing right now
ExecutingOn(w) == {j \in Jobs : Executing(j) /\ w \in CallersOf(j)}

\* C1: at most PoolSize jobs are executing at any instant, a worker executes
\* at most one job at a time, and a job that is executing is the one its
\* worker is inside the call of (the worker is not claiming another one).
C1_BoundedConcurrency ==
    /\ Cardinality({j \in Jobs : Executing(j)}) <= PoolSize
    /\ \A w \in Workers : Cardinality(ExecutingOn(w)) <= 1
    /\ \A j \in Jobs : Executing(j) => Cardinality(CallersOf(j)) = 1

\* C1 witness: every worker is executing a job and a further job waits
C1_Witness ==
    /\ Cardinality({j \in Jobs : Executing(j)}) = PoolSize
    /\ \A w \in Workers : Cardinality(ExecutingOn(w)) = 1
    /\ queue # <<>>

\* C2: under fair scheduling every job that execute has enqueued is eventually
\* completed, unless some job faults.
C2_AllJobsComplete ==
    \A j \in Jobs : (jobpc[j] = "queued") ~> (jobpc[j] = "done" \/ AnyFault)

\* C2 witness: all MaxJobs (>= PoolSize) jobs were enqueued and have completed
C2_Witness ==
    /\ MaxJobs >= PoolSize
    /\ \A j \in Jobs : jobpc[j] = "done"

\* C3: a job is received by at most one worker and called at most once, by
\* the worker that received it; no two workers hold the same job, and a job
\* that was received is no longer in the queue.
HoldersOf(j) == {w \in Workers : msg[w] = OkJob(j)}
C3_ExactlyOnce ==
    /\ \A j \in Jobs :
          /\ claims[j] <= 1
          /\ runs[j] <= claims[j]
          /\ Cardinality(HoldersOf(j)) <= 1
          /\ jobpc[j] \in ({"claimed", "done", "faulted"} \cup InBody) => claims[j] = 1
          /\ jobpc[j] \in ({"done", "faulted"} \cup InBody) => runs[j] = 1
          /\ jobpc[j] \in ({"claimed"} \cup InBody) => Cardinality(HoldersOf(j)) = 1
          /\ jobpc[j] \in {"new", "queued"} => claims[j] = 0 /\ HoldersOf(j) = {}
    /\ \A j \in Jobs : Cardinality({i \in 1..Len(queue) : queue[i] = j}) <= 1
    /\ \A i \in 1..Len(queue) : jobpc[queue[i]] = "queued"

\* C3 witness: two workers hold two different jobs at the same time, after a
\* first job has run once and completed
C3_Witness ==
    /\ \E j \in Jobs : jobpc[j] = "done" /\ claims[j] = 1 /\ runs[j] = 1
    /\ \E w1, w2 \in Workers :
          /\ w1 # w2
          /\ msg[w1].tag = "Ok" /\ msg[w2].tag = "Ok"
          /\ Executing(msg[w1].job) /\ Executing(msg[w2].job)

\* C4: a worker that is inside job() does not hold the queue lock.
C4_NoLockWhileExecuting ==
    \A w \in Workers : wpc[w] = "job" => w \notin guard

\* C4 witness: while one worker is still executing, another one has received
\* the next job under the lock
C4_Witness ==
    \E w1, w2 \in Workers :
        /\ w1 # w2
        /\ wpc[w1] = "job" /\ Executing(msg[w1].job)
        /\ wpc[w2] = "guard" /\ msg[w2].tag = "Ok" /\ w2 \in guard

\* C5: at most one worker holds the queue lock, and a worker that is in the
\* middle of a dequeue (in recv, blocked or not, or just out of it) holds it.
MidDequeue == {w \in Workers : wpc[w] \in {"recv", "guard"}}
C5_MutualExclusion ==
    /\ Cardinality(guard) <= 1
    /\ Cardinality(MidDequeue) <= 1
    /\ MidDequeue = guard

\* C5 witness: a worker is blocked in recv on the empty open queue while
\* another worker waits for the lock
C5_Witness ==
    \E w1, w2 \in Workers :
        /\ w1 # w2
        /\ wpc[w1] = "recv" /\ queue = <<>> /\ sender
        /\ wpc[w2] = "lock"

\* C6: whenever the owner is in the accept loop and every worker is busy
\* inside a job, execute can enqueue the next job in one step and the owner
\* is back in the accept loop.
C6_ExecuteNeverBlocks ==
    (main = "accept" /\ nextJob <= MaxJobs /\ BusyWorkers = Workers) =>
        ENABLED (Accept /\ queue' = Append(queue, nextJob) /\ main' = "accept")

\* C6 witness: a job was enqueued while every worker was busy and it waits in
\* the queue, the owner being back in the accept loop
C6_Witness ==
    /\ main = "accept"
    /\ BusyWorkers = Workers
    /\ sentAllBusy
    /\ nextJob > 1 /\ jobpc[nextJob - 1] = "queued"

\* C7 (as claimed): a job fault ends only the worker that ran it (no more
\* workers have ended by a panic than jobs have faulted, and the pool keeps
\* the workers it was built with), and no execute ever faults its caller.
C7_FaultIsolated ==
    /\ Cardinality({w \in Workers : wpc[w] = "panicked"}) <= Cardinality({j \in Jobs : jobpc[j] = "faulted"})
    /\ mainFault # "send"

\* C8 (as claimed): when the teardown of the pool has finished, every worker
\* thread has ended.
TeardownFinished == main \in {"dropped", "panicked"}
C8_NoWorkerOutlivesPool ==
    TeardownFinished => \A w \in Workers : Terminated(w)

\* C9: once the sending side is closed, the teardown eventually finishes and
\* every worker thread ends (or the whole process has been aborted).
C9_ShutdownTerminates ==
    (~sender) ~> (\/ main = "aborted"
                  \/ TeardownFinished /\ \A w \in Workers : Terminated(w))

\* C9 witness: the pool was dropped with work under way, every worker saw the
\* channel closed and left its loop, and every join returned
C9_Witness ==
    /\ main = "dropped"
    /\ \A w \in Workers : wpc[w] = "exited" /\ msg[w] = RecvErr
    /\ \E j \in Jobs : jobpc[j] = "done"

\* C10: routing is first-match-wins.  Whenever a job calls a handler, it is
\* in the handle step of a parsed request, it is the first handler the job
\* calls, and that handler is registered with a matcher that matches the
\* request while no matcher registered before it does; and whenever a job
\* leaves the route step, it goes on to call a handler iff some matcher matches.
MatchingRoutes(request) == {i \in 1..Len(handlers) : matches(handlers[i], request)}
C10_FirstMatchWins ==
    [][\A j \in Jobs :
          /\ Len(invoked'[j]) > Len(invoked[j]) =>
                /\ jobpc[j] = "handle"
                /\ req[j] # None
                /\ invoked[j] = <<>>
                /\ \E i \in MatchingRoutes(req[j]) :
                      /\ invoked'[j] = <<i>>
                      /\ \A k \in MatchingRoutes(req[j]) : i <= k
          /\ (jobpc[j] = "route" /\ jobpc'[j] # "route") =>
                jobpc'[j] = (IF MatchingRoutes(req[j]) # {} THEN "handle" ELSE "write")
    ]_vars

\* C10 witness: two pairs are registered with the same matcher, a request that
\* both match was handled by the pair registered first, and its response was
\* written
C10_Witness ==
    /\ Len(handlers) = 2
    /\ handlers[1] = handlers[2]
    /\ \E j \in Jobs :
          /\ invoked[j] = <<1>>
          /\ written[j] = <<Response_build(200, <<"handler", 1>>)>>
          /\ jobpc[j] = "done"

\* C11: a request that fails parsing is recovered inside its job.  When a job
\* leaves the parse step on a text that does not parse, it skips routing and
\* goes to the write step with a 500 response whose body carries the parse
\* error, no handler has been called, and no worker and no other job is
\* touched; a job that comes to hold or has written a 500 response has called
\* no handler and its worker is alive inside job(); and that worker's next
\* step comes after the job is done and takes it back to the top of its loop.
Is500(r) == r # None /\ r.code = 500
\* what Request::parse returns for the texts a client may send
ParseResults == {Request_parse(text) : text \in Wire}
Holds500(j) == Is500(resp[j]) \/ (written[j] # <<>> /\ Is500(written[j][1]))
C11_ParseFailureRecovered ==
    [][/\ jobpc' # jobpc =>
             \A j \in Jobs :
                /\ (jobpc[j] = "run" /\ jobpc'[j] # "run") =>
                      \E request \in ParseResults :
                         IF request.ok
                         THEN jobpc'[j] = "route" /\ req'[j] = request.val /\ ~Is500(resp'[j])
                         ELSE /\ jobpc'[j] = "write"
                              /\ resp'[j].code = 500
                              /\ resp'[j].body = <<"Something went wrong: ", request.err>>
                              /\ invoked'[j] = <<>> /\ sel'[j] = None /\ req'[j] = None
                              /\ wpc' = wpc /\ msg' = msg
                              /\ \A k \in Jobs \ {j} :
                                    /\ jobpc'[k] = jobpc[k]
                                    /\ resp'[k] = resp[k]
                                    /\ written'[k] = written[k]
                /\ (Is500(resp[j]) /\ jobpc'[j] # jobpc[j]) =>
                      \/ jobpc'[j] = "done" /\ written'[j] = <<resp[j]>>
                      \/ jobpc'[j] = "faulted" /\ written'[j] = <<>>
       /\ (resp' # resp \/ written' # written \/ invoked' # invoked) =>
             \A j \in Jobs :
                Holds500(j)' =>
                   /\ invoked'[j] = <<>>
                   /\ \E w \in Workers : wpc'[w] = "job" /\ msg'[w] = OkJob(j)
       /\ wpc' # wpc =>
             \A j \in Jobs :
                Holds500(j) =>
                   \A w \in Workers :
                      (msg[w] = OkJob(j) /\ wpc'[w] # wpc[w]) =>
                         (jobpc[j] = "done" /\ wpc'[w] = "lock")
    ]_vars

\* C11 witness: a connection whose request did not parse got the 500
\* response and called no handler, while another connection was served by a
\* handler on another worker
C11_Witness ==
    \E j, k \in Jobs :
        /\ j # k
        /\ jobpc[j] = "done" /\ Len(written[j]) = 1 /\ Is500(written[j][1])
        /\ invoked[j] = <<>>
        /\ jobpc[k] = "done" /\ Len(written[k]) = 1 /\ written[k][1].code = 200
        /\ CallersOf(j) # CallersOf(k)

\* C12: a parsed request that no registered matcher matches, the empty route
\* table included, gets the 404 response with the fixed body and calls no
\* handler: the job leaves the routing step for the write step holding that
\* response and no selected handler, the response it then writes is that one,
\* and a job that holds or has written a 404 has called no handler.
Is404(r) == r # None /\ r.code = 404
Holds404(j) == Is404(resp[j]) \/ (written[j] # <<>> /\ Is404(written[j][1]))
C12_NoMatchIs404 ==
    [][\A j \in Jobs :
          /\ (jobpc[j] = "route" /\ jobpc'[j] # "route" /\ MatchingRoutes(req[j]) = {}) =>
                /\ jobpc'[j] = "write"
                /\ resp'[j].code = 404
                /\ resp'[j].body = "Requested page has not been found"
                /\ sel'[j] = None
                /\ invoked'[j] = <<>>
          /\ (jobpc[j] = "route" /\ jobpc'[j] # "route" /\ MatchingRoutes(req[j]) # {}) =>
                ~Is404(resp'[j])
          /\ Holds404(j)' => invoked'[j] = <<>>
          /\ (Is404(resp[j]) /\ jobpc'[j] # jobpc[j]) =>
                \/ jobpc'[j] = "done" /\ written'[j] = <<resp[j]>>
                \/ jobpc'[j] = "faulted" /\ written'[j] = <<>>
    ]_vars

\* C12 witness: with both routes registered, a connection whose parsed request
\* matches neither has been answered with the 404 response
C12_Witness ==
    \E j \in Jobs :
        /\ Len(handlers) = MaxRoutes
        /\ jobpc[j] = "done"
        /\ written[j] = <<not_found_response>>
        /\ invoked[j] = <<>>

\* the empty route table also answers 404
C12_EmptyTableReached ==
    \E j \in Jobs : handlers = <<>> /\ jobpc[j] = "done" /\ Holds404(j)

\* C13: an accepted connection becomes exactly one job that serves exactly one
\* request.  The connection accepted next gets a fresh job; a job is queued,
\* claimed and called at most once and held by at most one worker; inside the
\* job the steps only go forward, parse, then route, then handle, then write,
\* none of them twice; a handler is called only in the handle step and a
\* response is written only in the write step, once, after which the job is over.
StepRank(pc) ==
    CASE pc = "new" -> 0 [] pc = "queued" -> 1 [] pc = "claimed" -> 2
      [] pc = "run" -> 3 [] pc = "route" -> 4 [] pc = "handle" -> 5
      [] pc = "write" -> 6 [] OTHER -> 7
QueuedTimes(j) == Cardinality({i \in 1..Len(queue) : queue[i] = j})
C13_OneRequestPerConnection ==
    [][/\ jobpc' # jobpc =>
             \A j \in Jobs :
                jobpc'[j] # jobpc[j] =>
                   /\ StepRank(jobpc'[j]) > StepRank(jobpc[j])
                   /\ jobpc[j] = "new" =>
                         (j = nextJob /\ nextJob' = j + 1 /\ jobpc'[j] = "queued")
                   /\ jobpc'[j] = "route" => jobpc[j] = "run"
                   /\ jobpc'[j] = "handle" => jobpc[j] = "route"
                   /\ jobpc'[j] = "write" => jobpc[j] \in {"run", "route", "handle"}
                   /\ jobpc'[j] = "done" => jobpc[j] = "write"
                   /\ jobpc'[j] \in InBody =>
                         \E w \in Workers : wpc'[w] = "job" /\ msg'[w] = OkJob(j)
       /\ invoked' # invoked =>
             \A j \in Jobs :
                Len(invoked'[j]) > Len(invoked[j]) =>
                   (jobpc[j] = "handle" /\ Len(invoked'[j]) = 1)
       /\ written' # written =>
             \A j \in Jobs :
                Len(written'[j]) > Len(written[j]) =>
                   (jobpc[j] = "write" /\ jobpc'[j] = "done" /\ written'[j] = <<resp[j]>>)
       /\ queue' # queue => \A j \in Jobs : QueuedTimes(j)' + claims'[j] <= 1
       /\ \A j \in Jobs : runs'[j] <= 1 /\ claims'[j] <= 1
       /\ msg' # msg => \A j \in Jobs : Cardinality(HoldersOf(j))' <= 1
    ]_vars

\* C13 witness: two connections were each served by their own job, one went
\* through all four steps and the other skipped the handler, and each got
\* exactly one response
C13_Witness ==
    \E j, k \in Jobs :
        /\ j # k
        /\ jobpc[j] = "done" /\ Len(invoked[j]) = 1 /\ Len(written[j]) = 1
        /\ jobpc[k] = "done" /\ invoked[k] = <<>> /\ Len(written[k]) = 1
        /\ runs[j] = 1 /\ runs[k] = 1

\* C14: the matcher built for method m and url u matches a request exactly
\* when the request's method is m and its url is u, the same text character
\* for character: a url that differs in case or by a trailing blank, or
\* another method, does not match.
CalledFn(fn) == output # None /\ output.fn = fn
C14_MatchesIffSameMethodAndUrl ==
    CalledFn("matches") =>
        /\ output.val \in BOOLEAN
        /\ output.val <=> (input.request.method = input.method
                              /\ input.request.url = input.url)
        /\ (input.url = <<"/", "a">> /\ input.request.url \in Urls \ {<<"/", "a">>})
              => output.val = FALSE

\* C14 witness: matches has answered false for a request of the matcher's
\* method whose url differs from the matcher's only in case
C14_Witness ==
    /\ CalledFn("matches")
    /\ input.method = "POST" /\ input.request.method = "POST"
    /\ input.url = <<"/", "a">> /\ input.request.url = <<"/", "A">>
    /\ output.val = FALSE

\* C15: parse_query_params on a query string made of well-formed segments
\* 'name=v1,v2' returns the multimap that holds, for each name of the string,
\* the values of all the segments of that name in the order they are met; e.g.
\* 'a=1&b=2,3' gives a: [1], b: [2, 3].
RECURSIVE Gather(_, _)
\* the values of the segments named n, in order
Gather(segs, n) ==
    IF segs = <<>> THEN <<>>
    ELSE (IF Head(segs).name = n THEN Head(segs).values ELSE <<>>) \o Gather(Tail(segs), n)
NamesOf(segs) == {segs[i].name : i \in 1..Len(segs)}
Multimap(segs) == [n \in NamesOf(segs) |-> Gather(segs, n)]
WellFormed(segs) == \A i \in 1..Len(segs) : segs[i].form = "pair"
C15_QueryParamsAccumulate ==
    (CalledFn("parse_query_params") /\ WellFormed(input.segs)) =>
        /\ output.val = Ok(Multimap(input.segs))
        /\ input.segs = <<Pair(<<"a">>, <<<<"1">>>>), Pair(<<"b">>, <<<<"2">>, <<"3">>>>)>> =>
              /\ DOMAIN output.val.val = {<<"a">>, <<"b">>}
              /\ output.val.val[<<"a">>] = <<<<"1">>>>
              /\ output.val.val[<<"b">>] = <<<<"2">>, <<"3">>>>

\* C15 witness: 'a=1&a=2,3' has been parsed and a holds 1, 2, 3
C15_Witness ==
    /\ CalledFn("parse_query_params")
    /\ input.segs = <<Pair(<<"a">>, <<<<"1">>>>), Pair(<<"a">>, <<<<"2">>, <<"3">>>>)>>
    /\ output.val.ok
    /\ output.val.val[<<"a">>] = <<<<"1">>, <<"2">>, <<"3">>>>

\* C16: parse_request_line succeeds only on a line whose first
\* space-delimited token is exactly GET, POST, PUT or DELETE and that has a
\* second token, and then returns that method and that token as the path; the
\* empty line, a line whose first token is 'UNKNOWN' or 'get' or any other
\* text, and a line with the method alone give a parse error and no value.
MethodNamed(token) ==
    CASE token = <<"G", "E", "T">> -> "GET"
      [] token = <<"P", "O", "S", "T">> -> "POST"
      [] token = <<"P", "U", "T">> -> "PUT"
      [] token = <<"D", "E", "L", "E", "T", "E">> -> "DELETE"
C16_RequestLineNeedsMethodAndPath ==
    CalledFn("parse_request_line") =>
        LET tokens == input.tokens
            fits == Len(tokens) >= 2 /\ tokens[1] \in MethodTokens
        IN /\ output.val.ok <=> fits
           /\ fits => output.val.val = <<MethodNamed(tokens[1]), tokens[2]>>
           /\ ~fits => (DOMAIN output.val = {"ok", "err"}
                          /\ output.val.err[1] = "Invalid request line: ")

\* C16 witness: the line 'get /a' has been refused
C16_Witness ==
    /\ CalledFn("parse_request_line")
    /\ input.tokens = <<<<"g", "e", "t">>, <<"/", "a">>>>
    /\ ~output.val.ok

\* the other refused lines are reached as well: the empty line, an unknown
\* method, a method with no path
C16_OtherRefusalsReached ==
    /\ CalledFn("parse_request_line")
    /\ input.tokens \in {<<>>, <<<<"U", "N", "K", "N", "O", "W", "N">>, <<"/", "a">>>>,
                         <<<<"G", "E", "T">>>>}
    /\ ~output.val.ok

\* C17: the header and query parameter multimaps accumulate.  After any
\* sequence of add_header / add_query_param calls, the request the builder
\* builds answers get_header(k) with all the values added as headers under k,
\* in the order they were added, and None for a key no header was added under,
\* and the same for get_query_param; so a call under one key changes no other
\* key's list, and a header changes no query parameter.
RECURSIVE ValuesAdded(_, _, _)
\* the values the calls of fn in cs added under key k, in order
ValuesAdded(cs, fn, k) ==
    IF cs = <<>> THEN <<>>
    ELSE (IF Head(cs).fn = fn /\ Head(cs).name = k THEN <<Head(cs).value>> ELSE <<>>)
            \o ValuesAdded(Tail(cs), fn, k)
Expected(fn, k) ==
    IF ValuesAdded(calls, fn, k) = <<>> THEN None ELSE Some(ValuesAdded(calls, fn, k))
\* the request built, or the one build() would make of the builder now
BuiltRequest == IF builder # None THEN RequestBuilder_build(builder) ELSE output.val
C17_MultimapsAccumulate ==
    (builder # None \/ CalledFn("build")) =>
        \A k \in Keys \cup {<<"Z">>} :
            /\ get_header(BuiltRequest, k) = Expected("add_header", k)
            /\ get_query_param(BuiltRequest, k) = Expected("add_query_param", k)

\* C17 witness: header X was added with 1, then query parameter X with 2, then
\* header X with 2; the built request has header X = [1, 2], no header Y, and
\* query parameter X = [2]
C17_Witness ==
    /\ CalledFn("build")
    /\ calls = <<Called("add_header", <<"X">>, <<"1">>),
                 Called("add_query_param", <<"X">>, <<"2">>),
                 Called("add_header", <<"X">>, <<"2">>)>>
    /\ get_header(output.val, <<"X">>) = Some(<<<<"1">>, <<"2">>>>)
    /\ get_header(output.val, <<"Y">>) = None
    /\ get_query_param(output.val, <<"X">>) = Some(<<<<"2">>>>)

\* C18: a failed write of the response is a fault of its job that nothing
\* catches.  The write step ends either with the response written and the job
\* done, or with nothing written and the job faulted, and it touches no
\* worker; a faulted job stays faulted; the next step of the worker that is
\* inside a faulted job ends that worker's thread and changes no other worker;
\* a worker that has ended this way never runs again (no thread takes its
\* place).
C18_WriteFailureEndsTheWorker ==
    [][/\ \A j \in Jobs :
             /\ (jobpc[j] = "write" /\ jobpc'[j] # "write") =>
                   /\ \/ jobpc'[j] = "done" /\ written'[j] = <<resp[j]>>
                      \/ jobpc'[j] = "faulted" /\ written'[j] = <<>>
                   /\ wpc' = wpc /\ msg' = msg
                   /\ Cardinality(CallersOf(j)) = 1
             /\ jobpc[j] = "faulted" => jobpc'[j] = "faulted"
             /\ \A w \in Workers :
                   (jobpc[j] = "faulted" /\ w \in CallersOf(j) /\ wpc'[w] # wpc[w]) =>
                      /\ wpc'[w] = "panicked"
                      /\ \A v \in Workers \ {w} : wpc'[v] = wpc[v] /\ msg'[v] = msg[v]
       /\ \A w \in Workers : wpc[w] = "panicked" => wpc'[w] = "panicked"
       /\ DOMAIN wpc' = Workers
    ]_vars

\* C18 witness: no route is registered, so no handler can have faulted; a
\* job's write failed and its worker has ended, and another worker has served
\* another connection
C18_Witness ==
    \E j, k \in Jobs : \E w, v \in Workers :
        /\ handlers = <<>>
        /\ j # k /\ w # v
        /\ jobpc[j] = "faulted" /\ wpc[w] = "panicked"
        /\ v \in CallersOf(k) /\ jobpc[k] = "done" /\ Len(written[k]) = 1

\* C19: for a path 'url&p1&...&pn' with n >= 1, parse_path returns the url
\* and the multimap of all the pairs p1..pn when every segment is a pair, and
\* fails when some segment, at any position, has no '='.  (Segments 'name='
\* are left out here: they are the matter of C20.)
C19_EveryPairParsed ==
    (/\ CalledFn("parse_path")
     /\ Len(input.segs) >= 1
     /\ \A i \in 1..Len(input.segs) : input.segs[i].form # "novalue") =>
        IF WellFormed(input.segs)
        THEN output.val = Ok(<<input.url, Multimap(input.segs)>>)
        ELSE ~output.val.ok

\* what parse_path does with 'url&p1&...&pn': the result is that of 'url&p1'
C19_OnlyFirstPairParsed ==
    (CalledFn("parse_path") /\ Len(input.segs) >= 1) =>
        output.val = parse_path(PathText(input.url, <<input.segs[1]>>))

\* C20: a query segment 'name=' with nothing after the '=' is a parse error,
\* and parse_query_param never succeeds with an empty value list or with a
\* list that holds only the empty string.
C20_EmptyValueListRejected ==
    CalledFn("parse_query_param") =>
        /\ input.seg.form = "novalue" => ~output.val.ok
        /\ output.val.ok => output.val.val[2] \notin {<<>>, << <<>> >>}

\* C21: closing the sending side does not discard queued work.  A worker is
\* told 'closed', and leaves its loop on it, only when the sender is gone and
\* the queue is empty; a job that was enqueued and not yet claimed is still in
\* the queue; when every worker has ended or the teardown has returned, and no
\* job has faulted, every job that was accepted is done; and under fair
\* scheduling a job that is in the queue once the sender is gone is eventually
\* done, unless some job faults.
InQueue(j) == \E i \in 1..Len(queue) : queue[i] = j
SawClosed(w) == msg[w] = RecvErr \/ wpc[w] = "exited"
NothingDiscarded ==
    /\ \A w \in Workers : SawClosed(w) => (queue = <<>> /\ ~sender)
    /\ \A j \in Jobs : jobpc[j] = "queued" <=> InQueue(j)
    /\ (~AnyFault /\ (TeardownFinished \/ \A w \in Workers : Terminated(w))) =>
          \A j \in Jobs : jobpc[j] \in {"new", "done"}
C21_CloseKeepsQueuedWork ==
    /\ []NothingDiscarded
    /\ \A j \in Jobs :
          (~sender /\ jobpc[j] = "queued") ~> (jobpc[j] = "done" \/ AnyFault)

\* C21 witness: the sender is gone, no job has faulted, a job is still
\* unclaimed in the queue and a worker that holds the lock is about to receive
C21_Witness ==
    /\ ~sender
    /\ ~AnyFault
    /\ queue # <<>>
    /\ \E w \in Workers : wpc[w] = "recv"

\* C22: execute enqueues the job whenever at least one worker thread is still
\* alive, and it panics in its caller, the job not enqueued, exactly when
\* every worker thread has ended; so the accept loop is brought down by a send
\* only after as many jobs have faulted as the pool has workers and every
\* worker has ended by a panic.
FaultedJobs == {j \in Jobs : jobpc[j] = "faulted"}
C22_ExecuteFailsIffNoWorkerLeft ==
    /\ (main = "accept" /\ nextJob <= MaxJobs) =>
          IF LiveWorkers # {}
          THEN /\ ENABLED (Accept /\ queue' = Append(queue, nextJob) /\ main' = "accept"
                              /\ mainFault' = mainFault)
               /\ ~ENABLED (Accept /\ (mainFault' = "send" \/ queue' = queue))
          ELSE /\ ENABLED (Accept /\ mainFault' = "send" /\ main' # "accept"
                              /\ queue' = queue /\ jobpc' = jobpc)
               /\ ~ENABLED (Accept /\ (queue' # queue \/ main' = "accept"))
    /\ mainFault = "send" =>
          /\ \A w \in Workers : wpc[w] = "panicked"
          /\ Cardinality(FaultedJobs) >= PoolSize
          /\ main # "accept"

\* C22 witness: PoolSize jobs have faulted, every worker has ended by a panic,
\* and the next execute has panicked in the accept loop without enqueuing its job
C22_Witness ==
    /\ mainFault = "send"
    /\ Cardinality(FaultedJobs) = PoolSize
    /\ \A w \in Workers : wpc[w] = "panicked"
    /\ nextJob > 1 /\ jobpc[nextJob - 1] = "new"
    /\ queue = <<>>

\* C23: jobs are claimed in submission order.  Jobs are numbered in the order
\* execute is called with them; the queue holds them in that order, every job
\* in the queue was submitted after every job that has been claimed, and so a
\* job that has been claimed was claimed before any job submitted after it.
\* Only the order in which claimed jobs start and finish may differ.
Submitted(j) == j < nextJob /\ jobpc[j] # "new"
Claimed(j)   == Submitted(j) /\ jobpc[j] # "queued"
C23_ClaimedInSubmissionOrder ==
    /\ \A p, q \in 1..Len(queue) : p < q => queue[p] < queue[q]
    /\ \A a, b \in Jobs : (a < b /\ Claimed(b)) => Claimed(a)
    /\ \A j \in Jobs : jobpc[j] # "new" => j < nextJob

\* C23 witness: job 1 was claimed first and is not yet started, while job 2,
\* claimed after it by another worker, has already finished
C23_Witness ==
    /\ jobpc[1] = "claimed"
    /\ jobpc[2] = "done"
    /\ \E w, v \in Workers : w # v /\ msg[w] = OkJob(1) /\ msg[v] = OkJob(2)

=============================================================================
